---- MODULE Spec2Model ----
(***************************************************************************)
(* Model of src/gitstore-manager.js: the GitstoreManager singleton, its    *)
(* mode state machine (ACTIVE / DEGRADED / LOCAL), the three storage tiers *)
(* (working copy, local mirror, remote clone) and the git protocol         *)
(* (prepare repository, pull, stage, commit, push with retry).             *)
(*                                                                         *)
(* Every public operation is an asynchronous function.  A call is a record *)
(* holding its position (pc), its continuation (ret, the labels to resume  *)
(* at when the current nested call returns) and its locals.  One action    *)
(* models one awaited step of the code: a filesystem access or one git     *)
(* invocation, together with the synchronous code that follows it up to    *)
(* the next await.  The outcome of every external step (git process,       *)
(* filesystem call) is chosen by the environment: it may fail whenever the *)
(* fault budget allows, and it must fail when git itself would refuse.     *)
(*                                                                         *)
(* Three specifications: Spec runs the public operations one at a time (a  *)
(* call finishes before the next starts); LiveSpec issues writes for ever  *)
(* under weak fairness; ConcSpec lets a second operation start while the   *)
(* first is suspended at an await, with control passing between the two at *)
(* the awaits.                                                             *)
(*                                                                         *)
(* Scope: this process is the only writer of the remote branch; a pull     *)
(* --rebase that cannot apply fails and leaves the clone as it was; the    *)
(* keys are the four DEFAULT_FILES, so this.files never grows; a directory *)
(* is represented by the content of its files, one token for all of them.  *)
(***************************************************************************)
EXTENDS Naturals, Sequences, FiniteSets

(* ------------------------------ bounds --------------------------------- *)
\* number of injected failures in one run: a git process or a filesystem
\* call that fails although it could have succeeded (the retries of one
\* _pushWithRetry that fail after its first failure belong to the same
\* failure)
MaxFaults == 1

(* ----------------------------- constants ------------------------------- *)
\* const attempts = 3 in _pushWithRetry
Attempts == 3

K_CFG == "config.json"
K_POOLS == "provider_pools.json"
K_PWD == "pwd"
K_DIR == "configs"
\* DEFAULT_FILES, in the order of the source
DEFAULT_FILES == <<K_CFG, K_POOLS, K_PWD, K_DIR>>
Keys == {K_CFG, K_POOLS, K_PWD, K_DIR}

(* ------------------------- contents of a path -------------------------- *)
\* texts a file may hold
TA == "{\"a\": 1}"
TB == "{\"b\": 2}"
TC == "{\"c\": 3}"
TE == "{}"
TPlain == "plain text"
\* a path is absent, a file with a text, or a directory whose one member
\* file "x" holds a text ("-" when the member is absent)
None == <<"none">>
File(t) == <<"file", t>>
Dir(x) == <<"dir", x>>
IsDir(c) == c[1] = "dir"
Exists(c) == c # None
\* existsSync(p)
AllNone == [k \in Keys |-> None]

\* values a caller passes as data
ObjA == <<"obj", "a">>
ObjB == <<"obj", "b">>
ObjC == <<"obj", "c">>
ObjE == <<"obj", "">>
Undefined == <<"undefined">>
Str(t) == <<"str", t>>

\* JSON.stringify(data, null, 2) on the modelled objects
Stringify(d) ==
    CASE d = ObjA -> TA
      [] d = ObjB -> TB
      [] d = ObjC -> TC
      [] OTHER -> TE

\* JSON.parse(text): <<"ok", value>> or <<"error">> (SyntaxError)
Parse(t) ==
    CASE t = TA -> <<"ok", ObjA>>
      [] t = TB -> <<"ok", ObjB>>
      [] t = TC -> <<"ok", ObjC>>
      [] t = TE -> <<"ok", ObjE>>
      [] OTHER -> <<"error">>

\* writeJson line 136: a string is written as it is, anything else is
\* serialised
Serialize(d) == IF d[1] = "str" THEN d[2] ELSE Stringify(d)

\* x ?? y
Coalesce(x, y) == IF x = Undefined THEN y ELSE x

(* -------------------------------- state -------------------------------- *)
VARIABLES
    env,        \* TRUE iff GITSTORE_GIT_URL, _USERNAME and _TOKEN are all set
    mgr,        \* the GitstoreManager instance: mode, pending, error, initialized, files
    wk,         \* working copies (process.cwd()/<key>)
    ex,         \* bundled defaults (process.cwd()/<key>.example)
    lm,         \* local mirror (data/<key>)
    git,        \* the clone data/gitstore: .git, origin, worktree, index, HEAD
    remote,     \* the branch of the remote repository
    call,       \* the public operation in flight (or the last one finished)
    prev,       \* the last writeJson that returned, until a later write to a key
    nFaults,    \* failures injected so far
    gitRuns,    \* TRUE once any git process has been spawned (_runGit)
    other,      \* a second public operation in flight, suspended at an await
    nCalls      \* public operations started so far, where they overlap

vars == <<env, mgr, wk, ex, lm, git, remote, call, prev, nFaults, gitRuns,
          other, nCalls>>

NoError == "null"

\* getState()
getState(m) == [mode |-> m.mode, pending |-> m.pending, error |-> m.error]

(* ---------------------------- the git clone ---------------------------- *)
EmptyGit ==
    [dotGit |-> FALSE, origin |-> FALSE, tracking |-> FALSE,
     wt |-> AllNone, index |-> AllNone, hasHead |-> FALSE, head |-> AllNone]

\* what git records of a path: an empty directory is not tracked
Staged(c) == IF c = Dir("-") THEN None ELSE c
Occupied(c) == Staged(c) # None

\* the tree HEAD names (the empty tree before the first commit)
HeadTree(g) == IF g.hasHead THEN g.head ELSE AllNone

\* no staged and no unstaged change to a tracked path
Clean(g) ==
    /\ g.index = HeadTree(g)
    /\ \A k \in Keys : g.index[k] # None => Staged(g.wt[k]) = g.index[k]

\* untracked files a checkout of tree t would overwrite
Clash(g, t) == \E k \in Keys : t[k] # None /\ Occupied(g.wt[k]) /\ g.index[k] = None

\* every key present in both trees has the same content in both
Compatible(a, b) == \A k \in Keys : (a[k] # None /\ b[k] # None) => a[k] = b[k]

(* ------------------------------- Init ---------------------------------- *)
\* what a call remembers of its push-with-retry, of the initialization it ran
\* and of the tiers its materialization saw
NoPwr == [res |-> "none", should |-> FALSE, pend |-> FALSE, tries |-> <<>>,
          lastErr |-> "null"]
NoInit == [done |-> FALSE, mode |-> "LOCAL", pending |-> FALSE, error |-> "null"]
NoSeen == [set |-> FALSE, mode |-> "LOCAL", g |-> None, l |-> None, e |-> None,
           w |-> None]
\* what an ensureWorkingCopies call saw: the three tiers when its loop started
\* and, per key, the source its loop picked with the content read from it
NoMat == [w0 |-> AllNone, l0 |-> AllNone, g0 |-> AllNone,
          picks |-> [k \in Keys |-> <<"-", None>>]]
NoCall ==
    [op |-> "none", key |-> "-", data |-> Undefined, todo |-> <<>>,
     pc |-> "idle", ret |-> <<>>, sa |-> "-", args |-> <<>>,
     hasChanges |-> FALSE, amend |-> FALSE, attempt |-> 0,
     result |-> "none", exc |-> NoError, value |-> Undefined,
     snap |-> [mode |-> "LOCAL", pending |-> FALSE, error |-> NoError],
     nPush |-> 0, nCommit |-> 0, pwr |-> NoPwr, init |-> NoInit, seen |-> NoSeen,
     mat |-> NoMat, pull |-> "-", log |-> {}]

NoPrev == [op |-> "none", key |-> "-", data |-> Undefined, mode |-> "LOCAL",
           adj |-> FALSE]

\* the remote branch before the process starts: no commit yet, or one commit
RemoteTrees == {[AllNone EXCEPT ![K_CFG] = File(TB)]}
InitRemotes ==
    {[exists |-> FALSE, tree |-> AllNone]} \cup
    {[exists |-> TRUE, tree |-> t] : t \in RemoteTrees}

\* data/gitstore before the process starts: empty, holding content without
\* .git (to adopt), or a clone of the remote left by an earlier run
InitGits(r) ==
    {EmptyGit, [EmptyGit EXCEPT !.wt = [AllNone EXCEPT ![K_PWD] = File(TPlain)]]}
    \cup (IF r.exists
          THEN {[dotGit |-> TRUE, origin |-> TRUE, tracking |-> TRUE, wt |-> r.tree,
                 index |-> r.tree, hasHead |-> TRUE, head |-> r.tree]}
          ELSE {})

\* the caller's directory, the local mirror and the bundled defaults before
\* the process starts: nothing; working files only; a mirrored file and a
\* default; a default only
InitWork == [AllNone EXCEPT ![K_CFG] = File(TA), ![K_PWD] = File(TPlain), ![K_DIR] = Dir(TA)]
InitLocal == [AllNone EXCEPT ![K_CFG] = File(TC)]
InitMirror == [AllNone EXCEPT ![K_DIR] = Dir(TB)]
InitExample == [AllNone EXCEPT ![K_CFG] = File(TE)]
InitFiles ==
    {<<AllNone, AllNone, AllNone>>, <<InitWork, AllNone, AllNone>>,
     <<AllNone, InitLocal, InitExample>>, <<AllNone, AllNone, InitExample>>}

\* an installation that runs without credentials: the files above, or
\* working files with the mirror an earlier run left of the directory, whose
\* files have been edited since
InitFilesLocal == InitFiles \cup {<<InitWork, InitMirror, AllNone>>}

Init ==
    /\ env \in BOOLEAN
    /\ mgr = [mode |-> "LOCAL", pending |-> FALSE, error |-> NoError,
              initialized |-> FALSE, files |-> DEFAULT_FILES]
    /\ \E f \in (IF env THEN InitFiles ELSE InitFilesLocal) :
         wk = f[1] /\ lm = f[2] /\ ex = f[3]
    /\ remote \in (IF env THEN InitRemotes ELSE {[exists |-> FALSE, tree |-> AllNone]})
    /\ git \in (IF env THEN InitGits(remote) ELSE {EmptyGit})
    /\ call = NoCall
    /\ prev = NoPrev
    /\ nFaults = 0
    /\ gitRuns = FALSE
    /\ other = NoCall
    /\ nCalls = 0


(* ---------------------- outcomes of external steps --------------------- *)
\* The outcomes the environment may choose for a step that can succeed only
\* when `can` holds: success needs `can`; a failure is free when git itself
\* refuses and is otherwise an injected fault, counted against MaxFaults.
Outs(can) ==
    {o \in {"ok", "fail"} : IF o = "ok" THEN can ELSE (~can \/ nFaults < MaxFaults)}
Cost(o, can) == IF o = "fail" /\ can THEN 1 ELSE 0

\* err?.message || String(err)
GitErr(cmd) == "git " \o cmd \o " failed"
FsErr(what) == "fs " \o what \o " failed"
PushErrs == {"push rejected", "push timed out"}

(* --------------------------- control helpers --------------------------- *)
\* a public operation resolves with getState()
Done(m, c) ==
    [c EXCEPT !.pc = "done", !.result = "returned", !.snap = getState(m), !.ret = <<>>]

\* `return` of the current (possibly nested) async function: resume the
\* caller at its continuation, or resolve the public operation
Ret(m, c) ==
    IF c.ret = <<>>
    THEN Done(m, c)
    ELSE [c EXCEPT !.pc = Head(c.ret), !.ret = Tail(c.ret)]

\* syncAllInStore lines 389-407: the try blocks around its writes
InOuterTry(c) == c.op = "syncAllInStore" /\ c.sa \in {"cfg", "pools", "pwd"}
InInnerTry(c) == c.op = "syncAllInStore" /\ c.sa = "dir"

\* the manager after an exception of the current step: only the outer catch
\* of syncAllInStore (lines 404-407) touches it
ThrowM(m, c, msg) ==
    IF InOuterTry(c)
    THEN [m EXCEPT !.mode = IF @ = "ACTIVE" THEN "DEGRADED" ELSE @, !.error = msg]
    ELSE m

\* the call after an exception of kind `kind` ("git", "fs", "parse"): caught
\* by syncAllInStore's try blocks, otherwise rejected to the caller
ThrowC(m, c, msg, kind) ==
    LET c1 == [c EXCEPT !.log = @ \cup {"threw:" \o kind}]
    IN  IF InInnerTry(c) THEN [c1 EXCEPT !.pc = "SA_pwd", !.ret = <<>>]
        ELSE IF InOuterTry(c) THEN Done(ThrowM(m, c, msg), c1)
        ELSE [c1 EXCEPT !.pc = "done", !.result = "threw", !.exc = msg,
                        !.snap = getState(m), !.ret = <<>>]

\* Array.from(new Set([...this.files, ...files])), line 52
RECURSIVE AddFiles(_, _)
AddFiles(files, more) ==
    IF more = <<>> THEN files
    ELSE LET f == Head(more)
             has == \E i \in 1..Len(files) : files[i] = f
         IN  AddFiles(IF has THEN files ELSE Append(files, f), Tail(more))

(* ----------------------- starting a public operation ------------------- *)
Idle == call.pc \in {"idle", "done"}

\* History for the claims about two operations: the last writeJson that
\* returned, as long as no operation that writes a file key has run since;
\* adj tells that it is the operation just before the current one.
Summary(c, pv) ==
    IF c.op = "writeJson" /\ c.result = "returned"
    THEN [op |-> c.op, key |-> c.key, data |-> c.data, mode |-> c.snap.mode,
          adj |-> TRUE]
    ELSE IF c.op \in {"writeJson", "syncAllInStore"} \/ pv.op = "none" THEN NoPrev
    ELSE [pv EXCEPT !.adj = FALSE]

\* a fresh call of `op`; every public operation begins in ensureInitialized
NewCall(op, key, data, todo, ret, args) ==
    [NoCall EXCEPT !.op = op, !.key = key, !.data = data, !.todo = todo,
                   !.pc = "EI", !.ret = ret, !.args = args,
                   !.sa = IF op = "syncAllInStore" THEN "pre" ELSE "-"]

Begin(c) ==
    /\ Idle
    /\ call' = c
    /\ prev' = Summary(call, prev)
    /\ UNCHANGED <<env, mgr, wk, ex, lm, git, remote, nFaults, gitRuns, other, nCalls>>

ReadKeys == {K_CFG}
WriteKeys == {K_CFG}
WriteData == {ObjA, Str(TA)}
SyncData == {Undefined}

\* ensureGitstoreInitialized(files = [])
StartEnsureInitialized ==
    Begin(NewCall("ensureInitialized", "-", Undefined, <<>>, <<>>, <<>>))

\* ensureGitstoreWorkingCopies(files = this.files)
StartEnsureWorkingCopies ==
    \E fs \in {mgr.files} :
        Begin(NewCall("ensureWorkingCopies", "-", Undefined, fs, <<"EWC_pull">>, <<>>))

\* readJsonFromStore(relativePath)
StartReadJson ==
    \E k \in ReadKeys :
        Begin(NewCall("readJson", k, Undefined, <<k>>, <<"EWC_pull", "RJ_read">>, <<>>))

\* writeJsonToStore(relativePath, data)
StartWriteJson ==
    \E k \in WriteKeys, d \in WriteData :
        Begin(NewCall("writeJson", k, d, <<>>, <<"WJ_work">>, <<>>))

\* syncDirectoryInStore(relativeDir): ensureInitialized, then
\* ensureWorkingCopies (which calls ensureInitialized again)
StartSyncDirectory ==
    Begin(NewCall("syncDirectory", K_DIR, Undefined, <<K_DIR>>,
                  <<"EI", "EWC_pull", "SD_mirror">>, <<>>))

\* the targets of syncAllInStore, lines 384-386
Targets(includePwd, includeConfigsDir) ==
    <<K_CFG, K_POOLS>> \o (IF includePwd THEN <<K_PWD>> ELSE <<>>)
                       \o (IF includeConfigsDir THEN <<K_DIR>> ELSE <<>>)

\* syncAllInStore({configData, includeConfigsDir, includePwd}) with the
\* default paths and the default providerPoolsData
StartSyncAll ==
    \E cd \in SyncData, all \in BOOLEAN :
      \E dirs \in {all}, pwd \in {all} :
        Begin(NewCall("syncAllInStore", "-", Undefined, Targets(pwd, dirs),
                      <<"EI", "EWC_pull", "SA_cfg">>,
                      <<cd, ObjE, dirs, pwd>>))


(* ------------------------- shapes of a step ---------------------------- *)
\* a step that spawns git (_runGit, line 296)
GitStep(m, c, g, r, cost) ==
    /\ mgr' = m
    /\ call' = c
    /\ git' = g
    /\ remote' = r
    /\ nFaults' = nFaults + cost
    /\ gitRuns' = TRUE
    /\ UNCHANGED <<env, wk, ex, lm, prev, other, nCalls>>

\* a step that only touches the filesystem or the manager
FsStep(m, c, w, l, g, cost) ==
    /\ mgr' = m
    /\ call' = c
    /\ wk' = w
    /\ lm' = l
    /\ git' = g
    /\ nFaults' = nFaults + cost
    /\ UNCHANGED <<env, ex, remote, prev, gitRuns, other, nCalls>>

Logged(c, step, o) == [c EXCEPT !.log = @ \cup {step \o ":" \o o}]

(* --------------------------- ensureInitialized ------------------------- *)
\* the files argument of the ensureInitialized call the operation is in
EIFiles(c) ==
    IF c.todo # <<>> THEN c.todo ELSE IF c.key # "-" THEN <<c.key>> ELSE <<>>

\* variant: the check of the required variables is skipped
MissingEnvNever(e) == FALSE

\* lines 61-62: REQUIRED_ENV.filter(...).length > 0
MissingEnv(e) == ~e

\* lines 63-66: a required variable is missing
MissingEnvMsg == "Missing env: GITSTORE_GIT_URL, GITSTORE_GIT_USERNAME, GITSTORE_GIT_TOKEN"
InitMissingEnv(m) ==
    [m EXCEPT !.mode = "LOCAL", !.error = MissingEnvMsg, !.initialized = TRUE]

\* lines 72-74 and 80: preparation went through
InitOk(m) ==
    [m EXCEPT !.mode = "ACTIVE", !.pending = FALSE, !.error = NoError,
              !.initialized = TRUE]

\* variant: a failed preparation is reported as a degraded remote
InitFailDegraded(m, msg) ==
    [m EXCEPT !.mode = "DEGRADED", !.error = msg, !.initialized = TRUE]

\* lines 75-78 and 80: preparation threw
InitFail(m, msg) ==
    [m EXCEPT !.mode = "LOCAL", !.error = msg, !.initialized = TRUE]

\* ensureInitialized returns getState() to its caller
InitDone(m, c) ==
    Ret(m, [c EXCEPT !.init = [done |-> TRUE, mode |-> m.mode, pending |-> m.pending,
                               error |-> m.error]])

\* lines 51-67: track the files, return when initialized, create the
\* directories, check the environment
EI ==
    /\ call.pc = "EI"
    /\ LET m1 == [mgr EXCEPT !.files = AddFiles(@, EIFiles(call))]
       IN  IF m1.initialized
           THEN FsStep(m1, Ret(m1, call), wk, lm, git, 0)
           ELSE \E o \in Outs(TRUE) :
                  IF o = "fail"
                  THEN FsStep(ThrowM(m1, call, FsErr("mkdir")),
                              ThrowC(m1, call, FsErr("mkdir"), "fs"), wk, lm, git, 1)
                  ELSE IF MissingEnv(env)
                  THEN FsStep(InitMissingEnv(m1), InitDone(InitMissingEnv(m1), call),
                              wk, lm, git, 0)
                  ELSE FsStep(m1, [call EXCEPT !.pc = "EI_askpass"], wk, lm, git, 0)

\* _prepareGitEnv (lines 183-202), then the start of _prepareRepository:
\* existsSync(.git) (line 205)
EI_askpass ==
    /\ call.pc = "EI_askpass"
    /\ \E o \in Outs(TRUE) :
         LET c1 == Logged(call, "askpass", o)
         IN  IF o = "fail"
             THEN FsStep(InitFail(mgr, FsErr("askpass")),
                         InitDone(InitFail(mgr, FsErr("askpass")), c1), wk, lm, git, 1)
             ELSE FsStep(mgr, [c1 EXCEPT !.pc = IF git.dotGit THEN "EI_fetch"
                                                ELSE "EI_readdir"],
                         wk, lm, git, 0)

\* fs.readdir(gitDir), lines 207-208
GitDirEmpty(g) == \A k \in Keys : g.wt[k] = None
EI_readdir ==
    /\ call.pc = "EI_readdir"
    /\ \E o \in Outs(TRUE) :
         IF o = "fail"
         THEN FsStep(InitFail(mgr, FsErr("readdir")),
                     InitDone(InitFail(mgr, FsErr("readdir")), call), wk, lm, git, 1)
         ELSE FsStep(mgr, [call EXCEPT !.pc = IF GitDirEmpty(git) THEN "EI_clone"
                                               ELSE "EI_init"],
                     wk, lm, git, 0)

\* the branch of the clone takes the remote branch and replays the local
\* commit, if any, on top of it (clone, checkout of the tracked branch,
\* pull --rebase)
Merged(g, r) ==
    LET h == HeadTree(g)
        t == [k \in Keys |-> IF h[k] # None THEN h[k] ELSE r.tree[k]]
    IN  [g EXCEPT !.hasHead = TRUE, !.head = t, !.index = t, !.tracking = TRUE,
                  !.wt = [k \in Keys |-> IF r.tree[k] # None /\ g.index[k] = None
                                         THEN r.tree[k] ELSE g.wt[k]]]

\* git clone <url> gitDir, line 209
EI_clone ==
    /\ call.pc = "EI_clone"
    /\ \E o \in Outs(TRUE) :
         LET c1 == Logged(call, "clone", o)
             g1 == [git EXCEPT !.dotGit = TRUE, !.origin = TRUE]
         IN  IF o = "fail"
             THEN GitStep(InitFail(mgr, GitErr("clone")),
                          InitDone(InitFail(mgr, GitErr("clone")), c1), git, remote, 1)
             ELSE GitStep(mgr, [c1 EXCEPT !.pc = "EI_fetch"],
                          IF remote.exists THEN Merged(g1, remote) ELSE g1, remote, 0)

\* git init, line 211
EI_init ==
    /\ call.pc = "EI_init"
    /\ \E o \in Outs(TRUE) :
         LET c1 == Logged(call, "init", o)
         IN  IF o = "fail"
             THEN GitStep(InitFail(mgr, GitErr("init")),
                          InitDone(InitFail(mgr, GitErr("init")), c1), git, remote, 1)
             ELSE GitStep(mgr, [c1 EXCEPT !.pc = "EI_remoteAdd"],
                          [git EXCEPT !.dotGit = TRUE], remote, 0)

\* git remote add origin <url>, failure ignored, line 212
EI_remoteAdd ==
    /\ call.pc = "EI_remoteAdd"
    /\ \E o \in Outs(~git.origin) :
         GitStep(mgr, [Logged(call, "remoteAdd", o) EXCEPT !.pc = "EI_fetch"],
                 IF o = "ok" THEN [git EXCEPT !.origin = TRUE] ELSE git,
                 remote, Cost(o, ~git.origin))

\* git fetch origin, failure ignored, line 216
EI_fetch ==
    /\ call.pc = "EI_fetch"
    /\ \E o \in Outs(git.origin) :
         GitStep(mgr, [Logged(call, "fetch", o) EXCEPT !.pc = "EI_checkout"],
                 IF o = "ok" THEN [git EXCEPT !.tracking = remote.exists] ELSE git,
                 remote, Cost(o, git.origin))

\* git checkout <branch>, line 223: the local branch, or a new local branch
\* tracking the fetched one
CheckoutCan(g, r) ==
    g.hasHead \/ (g.tracking /\ r.exists /\ g.index = AllNone /\ ~Clash(g, r.tree))
EI_checkout ==
    /\ call.pc = "EI_checkout"
    /\ \E o \in Outs(CheckoutCan(git, remote)) :
         LET c1 == Logged(call, "checkout", o)
         IN  IF o = "fail"
             THEN GitStep(mgr, [c1 EXCEPT !.pc = "EI_checkoutB"], git, remote,
                          Cost(o, CheckoutCan(git, remote)))
             ELSE GitStep(mgr, [c1 EXCEPT !.pc = "EI_pull"],
                          IF git.hasHead THEN git ELSE Merged(git, remote), remote, 0)

\* git checkout -b <branch>, line 225: refused when the branch exists
EI_checkoutB ==
    /\ call.pc = "EI_checkoutB"
    /\ \E o \in Outs(~git.hasHead) :
         LET c1 == Logged(call, "checkoutB", o)
         IN  IF o = "fail"
             THEN GitStep(InitFail(mgr, GitErr("checkout -b")),
                          InitDone(InitFail(mgr, GitErr("checkout -b")), c1),
                          git, remote, Cost(o, ~git.hasHead))
             ELSE GitStep(mgr, [c1 EXCEPT !.pc = "EI_pull"], git, remote, 0)

\* git pull origin <branch> --rebase: needs the remote branch, a clean
\* worktree, no untracked file in the way and a local commit that applies
PullCan(g, r) ==
    /\ g.origin
    /\ r.exists
    /\ Clean(g)
    /\ ~Clash(g, r.tree)
    /\ Compatible(HeadTree(g), r.tree)

\* _pullLatest, failure ignored (line 218), then lines 72-74 and 80-81
EI_pull ==
    /\ call.pc = "EI_pull"
    /\ \E o \in Outs(PullCan(git, remote)) :
         GitStep(InitOk(mgr), InitDone(InitOk(mgr), Logged(call, "initPull", o)),
                 IF o = "ok" THEN Merged(git, remote) ELSE git,
                 remote, Cost(o, PullCan(git, remote)))


(* -------------------------- ensureWorkingCopies ------------------------ *)
\* variant: a failed pull leaves pending as it was
PullFailedKeepsPending(m, msg) ==
    [m EXCEPT !.mode = "DEGRADED", !.error = msg]

\* lines 88-92: the catch of the pull before materialization
PullFailed(m, msg) ==
    [m EXCEPT !.mode = "DEGRADED", !.error = msg, !.pending = TRUE]

\* line 95: the loop is entered; an ensureWorkingCopies call remembers the
\* tiers as they are then
EnterLoop(c, g) ==
    [c EXCEPT !.pc = "EWC_mat",
              !.mat = IF c.op = "ensureWorkingCopies"
                      THEN [NoMat EXCEPT !.w0 = wk, !.l0 = lm, !.g0 = g.wt]
                      ELSE @]

\* lines 87-93
EWC_pull ==
    /\ call.pc = "EWC_pull"
    /\ IF mgr.mode = "LOCAL"
       THEN FsStep(mgr, EnterLoop(call, git), wk, lm, git, 0)
       ELSE \E o \in Outs(PullCan(git, remote)) :
              LET g1 == IF o = "ok" THEN Merged(git, remote) ELSE git
              IN  GitStep(IF o = "ok" THEN mgr ELSE PullFailed(mgr, GitErr("pull")),
                          EnterLoop([Logged(call, "pull", o) EXCEPT !.pull = o], g1),
                          g1, remote, Cost(o, PullCan(git, remote)))

\* variant: the local mirror is preferred to the clone
PickSourceLocalFirst(mode, g, l, e) ==
    IF Exists(l) THEN "local"
    ELSE IF mode # "LOCAL" /\ Exists(g) THEN "git"
    ELSE IF Exists(e) THEN "example"
    ELSE "none"

\* _pickSource, lines 281-293, on the contents of the three candidates
PickSource(mode, g, l, e) ==
    IF mode # "LOCAL" /\ Exists(g) THEN "git"
    ELSE IF Exists(l) THEN "local"
    ELSE IF Exists(e) THEN "example"
    ELSE "none"

\* fs.cp(from, to, {recursive: true}): a file replaces the target, a
\* directory is merged into an existing directory
Cp(src, dst) ==
    IF IsDir(src) /\ IsDir(dst)
    THEN Dir(IF src[2] # "-" THEN src[2] ELSE dst[2])
    ELSE src

\* variant: the clone is never written
MatWritesNoClone(mode) == 2

\* the writes of one key's materialization, in the order of lines 109-119:
\* working copy, local mirror and, unless LOCAL, the clone
MatWrites(mode) == IF mode = "LOCAL" THEN 2 ELSE 3

\* how many of them can complete: fs.cp rejects a copy of a path onto
\* itself (ERR_FS_CP_EINVAL), which a directory source in the local mirror
\* or in the clone reaches at its own tier; _writeFile has no such check
MatCan(mode, src, content) ==
    IF ~IsDir(content) THEN MatWrites(mode)
    ELSE IF src = "local" THEN 1
    ELSE IF src = "git" THEN 2
    ELSE MatWrites(mode)

\* lines 95-124: one iteration of the loop, for the first key still to do;
\* n is the number of writes that completed
EWC_mat ==
    /\ call.pc = "EWC_mat"
    /\ call.todo # <<>>
    /\ LET k == Head(call.todo)
           src == PickSource(mgr.mode, git.wt[k], lm[k], ex[k])
           content == CASE src = "git" -> git.wt[k]
                        [] src = "local" -> lm[k]
                        [] src = "example" -> ex[k]
                        [] OTHER -> None
           total == MatWrites(mgr.mode)
           can == MatCan(mgr.mode, src, content)
           c1 == [call EXCEPT !.todo = Tail(@),
                              !.seen = IF call.op = "readJson"
                                       THEN [set |-> TRUE, mode |-> mgr.mode,
                                             g |-> git.wt[k], l |-> lm[k],
                                             e |-> ex[k], w |-> wk[k]]
                                       ELSE @,
                              !.mat = IF call.op = "ensureWorkingCopies"
                                      THEN [@ EXCEPT !.picks[k] = <<src, content>>]
                                      ELSE @]
           next == IF c1.todo = <<>> THEN Ret(mgr, c1) ELSE c1
       IN  IF src = "none"
           THEN FsStep(mgr, next, wk, lm, git, 0)
           ELSE \E n \in 0..can :
                  /\ n < can => nFaults < MaxFaults
                  /\ FsStep(IF n = total THEN mgr
                            ELSE ThrowM(mgr, c1, FsErr("materialize")),
                            IF n = total THEN next
                            ELSE ThrowC(mgr, c1, FsErr("materialize"), "fs"),
                            IF n >= 1 THEN [wk EXCEPT ![k] = Cp(content, @)] ELSE wk,
                            IF n >= 2 THEN [lm EXCEPT ![k] = Cp(content, @)] ELSE lm,
                            IF n >= 3 THEN [git EXCEPT !.wt[k] = Cp(content, @)] ELSE git,
                            IF n < can THEN 1 ELSE 0)

(* -------------------------------- readJson ----------------------------- *)
\* lines 129-131: read the working copy and parse it
RJ_read ==
    /\ call.pc = "RJ_read"
    /\ LET w == wk[call.key]
           can == Exists(w) /\ ~IsDir(w)
       IN  \E o \in Outs(can) :
             IF o = "fail"
             THEN FsStep(mgr, ThrowC(mgr, call, FsErr("readFile"), "fs"),
                         wk, lm, git, Cost(o, can))
             ELSE IF Parse(w[2])[1] = "error"
             THEN FsStep(mgr, ThrowC(mgr, call, "SyntaxError", "parse"), wk, lm, git, 0)
             ELSE FsStep(mgr, Ret(mgr, [call EXCEPT !.value = Parse(w[2])[2]]),
                         wk, lm, git, 0)


(* ------------------------------- writeJson ----------------------------- *)
\* lines 136-142: serialise, write the working copy
WJ_work ==
    /\ call.pc = "WJ_work"
    /\ \E o \in Outs(TRUE) :
         IF o = "fail"
         THEN FsStep(ThrowM(mgr, call, FsErr("write working copy")),
                     ThrowC(mgr, Logged(call, "writeWorking", o),
                            FsErr("write working copy"), "fs"),
                     wk, lm, git, 1)
         ELSE FsStep(mgr, [call EXCEPT !.pc = "WJ_local"],
                     [wk EXCEPT ![call.key] = File(Serialize(call.data))], lm, git, 0)

\* variant: the local mirror is left for after the push
LocalWriteSkipped(l, k, d) == l

\* lines 143 and 150: _writeFile(localPath, content), _writeFile(gitPath, content)
LocalWrite(l, k, d) == [l EXCEPT ![k] = File(Serialize(d))]

\* variant: the copy in the clone is not written
GitWriteSkipped(g, k, d) == g

GitWrite(g, k, d) == [g EXCEPT !.wt[k] = File(Serialize(d))]

\* lines 145-148 and 314-317: LOCAL mode stops after the local tiers
LocalOnly(m) == [m EXCEPT !.pending = FALSE]

\* lines 143-148: write the local mirror, stop there in LOCAL mode
WJ_local ==
    /\ call.pc = "WJ_local"
    /\ \E o \in Outs(TRUE) :
         IF o = "fail"
         THEN FsStep(ThrowM(mgr, call, FsErr("write local mirror")),
                     ThrowC(mgr, call, FsErr("write local mirror"), "fs"),
                     wk, lm, git, 1)
         ELSE LET l1 == LocalWrite(lm, call.key, call.data)
              IN  IF mgr.mode = "LOCAL"
                  THEN FsStep(LocalOnly(mgr), Ret(LocalOnly(mgr), call), wk, l1, git, 0)
                  ELSE FsStep(mgr, [call EXCEPT !.pc = "WJ_git"], wk, l1, git, 0)

\* line 150: write the copy in the clone
WJ_git ==
    /\ call.pc = "WJ_git"
    /\ \E o \in Outs(TRUE) :
         IF o = "fail"
         THEN FsStep(ThrowM(mgr, call, FsErr("write clone copy")),
                     ThrowC(mgr, call, FsErr("write clone copy"), "fs"),
                     wk, lm, git, 1)
         ELSE FsStep(mgr, [call EXCEPT !.pc = "STAGE"], wk, lm,
                     GitWrite(git, call.key, call.data), 0)

(* ------------------- stage, commit, push (both writes) ----------------- *)
\* _stageFiles, lines 233-235 (called at 151 and 320): git add <key>
STAGE ==
    /\ call.pc = "STAGE"
    /\ LET can == git.dotGit /\ Exists(git.wt[call.key])
       IN  \E o \in Outs(can) :
             IF o = "fail"
             THEN GitStep(ThrowM(mgr, call, GitErr("add")),
                          ThrowC(mgr, Logged(call, "add", o), GitErr("add"), "git"),
                          git, remote, Cost(o, can))
             ELSE GitStep(mgr, [call EXCEPT !.pc = "DIFF"],
                          [git EXCEPT !.index[call.key] = Staged(git.wt[call.key])],
                          remote, 0)

\* variant: a successful push leaves the last error in place
AfterPushKeepsError(m, pushed) ==
    IF ~pushed
    THEN [m EXCEPT !.mode = "DEGRADED", !.pending = TRUE]
    ELSE [m EXCEPT !.mode = "ACTIVE", !.pending = FALSE]

\* lines 256-257 and the branches at 160-167 / 328-335
AfterPush(m, pushed) ==
    IF ~pushed
    THEN [m EXCEPT !.mode = "DEGRADED", !.pending = TRUE]
    ELSE [m EXCEPT !.mode = "ACTIVE", !.pending = FALSE, !.error = NoError]

\* variant: only a change of this call asks for a push
ShouldPushChangesOnly(hasChanges, pending) == hasChanges

\* line 159 / 327: the argument of _pushWithRetry
ShouldPush(hasChanges, pending) == hasChanges \/ pending

\* the call enters _pushWithRetry(shouldPush): lines 255-259
EnterPushC(m, c) ==
    LET should == ShouldPush(c.hasChanges, m.pending)
        c1 == [c EXCEPT !.pwr = [res |-> IF should THEN "running" ELSE "true",
                                 should |-> should, pend |-> m.pending,
                                 tries |-> <<>>, lastErr |-> "null"],
                        !.attempt = 0]
    IN  IF should THEN [c1 EXCEPT !.pc = "PWR"] ELSE Ret(AfterPush(m, TRUE), c1)
EnterPushM(m, c) ==
    IF ShouldPush(c.hasChanges, m.pending) THEN m ELSE AfterPush(m, TRUE)

\* variant: every write counts as a change
HasStagedChangesAlways(o) == TRUE

\* _hasStagedChanges, lines 237-244: any failure of git diff counts as a change
HasStagedChanges(o) == o # "same"

\* git diff --cached --quiet: exit 0 when the index equals HEAD, exit 1 when
\* it differs, any other failure when the process breaks
DiffOuts(g) ==
    {o \in {"same", "differ", "error"} :
        CASE o = "same" -> g.index = HeadTree(g)
          [] o = "differ" -> g.index # HeadTree(g)
          [] OTHER -> nFaults < MaxFaults}

\* lines 153-159 / 322-327 up to the commit or the push decision
DIFF ==
    /\ call.pc = "DIFF"
    /\ \E o \in DiffOuts(git) :
         LET c1 == [Logged(call, "diff", o) EXCEPT !.hasChanges = HasStagedChanges(o)]
         IN  IF c1.hasChanges
             THEN GitStep(mgr, [c1 EXCEPT !.pc = "HEAD"], git, remote,
                          IF o = "error" THEN 1 ELSE 0)
             ELSE GitStep(EnterPushM(mgr, c1), EnterPushC(mgr, c1), git, remote, 0)

\* _hasHead, lines 272-279 (called at 247): git rev-parse --verify HEAD
HEAD ==
    /\ call.pc = "HEAD"
    /\ \E o \in Outs(git.hasHead) :
         GitStep(mgr, [Logged(call, "revparse", o) EXCEPT !.pc = "COMMIT",
                                                          !.amend = (o = "ok")],
                 git, remote, Cost(o, git.hasHead))

\* lines 248-252: amend the commit, or make the first one (git commit -m
\* refuses when nothing is staged)
CommitCan(g, amend) == IF amend THEN g.hasHead ELSE g.index # HeadTree(g)
COMMIT ==
    /\ call.pc = "COMMIT"
    /\ LET can == CommitCan(git, call.amend)
       IN  \E o \in Outs(can) :
             IF o = "fail"
             THEN GitStep(ThrowM(mgr, call, GitErr("commit")),
                          ThrowC(mgr, Logged(call, "commit", o), GitErr("commit"), "git"),
                          git, remote, Cost(o, can))
             ELSE LET c1 == [call EXCEPT !.nCommit = @ + 1]
                  IN  GitStep(EnterPushM(mgr, c1), EnterPushC(mgr, c1),
                              [git EXCEPT !.hasHead = TRUE, !.head = git.index],
                              remote, 0)

\* variant: the loop runs once more
RetryLeftOffByOne(i) == i <= Attempts

\* line 260: the loop condition of _pushWithRetry
RetryLeft(i) == i < Attempts

\* the outcomes of git push: the first attempt of a call fails like any
\* other step; once it has failed, the retries of the same call may fail
\* with it (one outage)
PushOuts(attempt, can) ==
    IF attempt = 0 THEN Outs(can)
    ELSE {"fail"} \cup (IF can THEN {"ok"} ELSE {})

\* lines 260-269: one git push --force, or the end of the loop; then lines
\* 160-169 / 328-337
PWR ==
    /\ call.pc = "PWR"
    /\ \/ /\ RetryLeft(call.attempt)
          /\ LET can == git.origin /\ git.hasHead
             IN  \E o \in PushOuts(call.attempt, can) :
                   IF o = "ok"
                   THEN LET c1 == [call EXCEPT !.nPush = @ + 1,
                                               !.pwr.tries = Append(@, "ok"),
                                               !.pwr.res = "true"]
                        IN  GitStep(AfterPush(mgr, TRUE), Ret(AfterPush(mgr, TRUE), c1),
                                    [git EXCEPT !.tracking = TRUE],
                                    [exists |-> TRUE, tree |-> git.head], 0)
                   ELSE \E msg \in PushErrs :
                          GitStep([mgr EXCEPT !.error = msg],
                                  [call EXCEPT !.nPush = @ + 1,
                                               !.attempt = @ + 1,
                                               !.pwr.tries = Append(@, "fail"),
                                               !.pwr.lastErr = msg],
                                  git, remote,
                                  IF call.attempt = 0 THEN Cost(o, can) ELSE 0)
       \/ /\ ~RetryLeft(call.attempt)
          /\ LET c1 == [call EXCEPT !.pwr.res = "false"]
             IN  FsStep(AfterPush(mgr, FALSE), Ret(AfterPush(mgr, FALSE), c1),
                        wk, lm, git, 0)

(* ------------------------------ syncDirectory -------------------------- *)
\* lines 307-317: nothing to do without the working directory; mirror it
SD_mirror ==
    /\ call.pc = "SD_mirror"
    /\ IF ~Exists(wk[call.key])
       THEN FsStep(mgr, Ret(mgr, call), wk, lm, git, 0)
       ELSE \E o \in Outs(TRUE) :
              IF o = "fail"
              THEN FsStep(ThrowM(mgr, call, FsErr("copy to local mirror")),
                          ThrowC(mgr, Logged(call, "copyLocal", o),
                                 FsErr("copy to local mirror"), "fs"),
                          wk, lm, git, 1)
              ELSE LET l1 == [lm EXCEPT ![call.key] = Cp(wk[call.key], @)]
                   IN  IF mgr.mode = "LOCAL"
                       THEN FsStep(LocalOnly(mgr), Ret(LocalOnly(mgr), call),
                                   wk, l1, git, 0)
                       ELSE FsStep(mgr, [call EXCEPT !.pc = "SD_git"], wk, l1, git, 0)

\* line 319: copy the working directory into the clone
SD_git ==
    /\ call.pc = "SD_git"
    /\ \E o \in Outs(TRUE) :
         IF o = "fail"
         THEN FsStep(ThrowM(mgr, call, FsErr("copy to clone")),
                     ThrowC(mgr, call, FsErr("copy to clone"), "fs"), wk, lm, git, 1)
         ELSE FsStep(mgr, [call EXCEPT !.pc = "STAGE"], wk, lm,
                     [git EXCEPT !.wt[call.key] = Cp(wk[call.key], @)], 0)

(* ------------------------------ syncAllInStore ------------------------- *)
\* the call enters writeJson(key, data) and resumes at `after`
CallWrite(c, sa, key, data, after) ==
    [c EXCEPT !.sa = sa, !.key = key, !.data = data, !.todo = <<>>,
              !.pc = "EI", !.ret = <<"WJ_work">> \o after,
              !.hasChanges = FALSE, !.amend = FALSE]

\* line 390: writeJson(configPath, configData ?? {})
SA_cfg ==
    /\ call.pc = "SA_cfg"
    /\ FsStep(mgr, CallWrite(call, "cfg", K_CFG, Coalesce(call.args[1], ObjE),
                             <<"SA_pools">>),
              wk, lm, git, 0)

\* line 391: writeJson(providerPoolsPath, providerPoolsData ?? {})
SA_pools ==
    /\ call.pc = "SA_pools"
    /\ FsStep(mgr, CallWrite(call, "pools", K_POOLS, Coalesce(call.args[2], ObjE),
                             <<"SA_dir">>),
              wk, lm, git, 0)

\* lines 392-399: fs.access('configs') then syncDirectory('configs'), any
\* failure of either ignored
SA_dir ==
    /\ call.pc = "SA_dir"
    /\ IF ~call.args[3]
       THEN FsStep(mgr, [call EXCEPT !.pc = "SA_pwd"], wk, lm, git, 0)
       ELSE \E o \in Outs(Exists(wk[K_DIR])) :
              IF o = "fail"
              THEN FsStep(mgr, [call EXCEPT !.pc = "SA_pwd", !.sa = "dir"], wk, lm, git,
                          Cost(o, Exists(wk[K_DIR])))
              ELSE FsStep(mgr,
                          [call EXCEPT !.sa = "dir", !.key = K_DIR, !.todo = <<K_DIR>>,
                                       !.pc = "EI",
                                       !.ret = <<"EI", "EWC_pull", "SD_mirror", "SA_pwd">>,
                                       !.hasChanges = FALSE, !.amend = FALSE],
                          wk, lm, git, 0)

\* lines 400-403 and 409: write the pwd file as raw text, return the state
SA_pwd ==
    /\ call.pc = "SA_pwd"
    /\ LET c0 == [call EXCEPT !.sa = "pwd"]
       IN  IF ~(call.args[4] /\ Exists(wk[K_PWD]))
           THEN FsStep(mgr, Done(mgr, c0), wk, lm, git, 0)
           ELSE \E o \in Outs(TRUE) :
                  IF o = "fail"
                  THEN FsStep(ThrowM(mgr, c0, FsErr("readFile")),
                              ThrowC(mgr, c0, FsErr("readFile"), "fs"), wk, lm, git, 1)
                  ELSE FsStep(mgr, CallWrite(c0, "pwd", K_PWD, Str(wk[K_PWD][2]), <<>>),
                              wk, lm, git, 0)

(* ------------------------------ specification -------------------------- *)
Next ==
    \/ StartEnsureInitialized
    \/ StartEnsureWorkingCopies
    \/ StartReadJson
    \/ StartWriteJson
    \/ StartSyncDirectory
    \/ StartSyncAll
    \/ EI
    \/ EI_askpass
    \/ EI_readdir
    \/ EI_clone
    \/ EI_init
    \/ EI_remoteAdd
    \/ EI_fetch
    \/ EI_checkout
    \/ EI_checkoutB
    \/ EI_pull
    \/ EWC_pull
    \/ EWC_mat
    \/ RJ_read
    \/ WJ_work
    \/ WJ_local
    \/ WJ_git
    \/ STAGE
    \/ DIFF
    \/ HEAD
    \/ COMMIT
    \/ PWR
    \/ SD_mirror
    \/ SD_git
    \/ SA_cfg
    \/ SA_pools
    \/ SA_dir
    \/ SA_pwd

Spec == Init /\ [][Next]_vars

(* ------------- writes that keep being issued, credentials set --------- *)
\* The process is started with the credentials set and the caller issues
\* writeJson calls for ever, each awaited before the next; every awaited
\* step eventually completes.
LiveInit == Init /\ env

LiveNext ==
    \/ StartWriteJson
    \/ EI
    \/ EI_askpass
    \/ EI_readdir
    \/ EI_clone
    \/ EI_init
    \/ EI_remoteAdd
    \/ EI_fetch
    \/ EI_checkout
    \/ EI_checkoutB
    \/ EI_pull
    \/ WJ_work
    \/ WJ_local
    \/ WJ_git
    \/ STAGE
    \/ DIFF
    \/ HEAD
    \/ COMMIT
    \/ PWR

LiveSpec == LiveInit /\ [][LiveNext]_vars /\ WF_vars(LiveNext)

(* ------------------------- overlapping operations ---------------------- *)
\* Several public operations are started without awaiting the previous one.
\* The event loop runs one of them at a time and may pass from one to the
\* other at every await: `call` is the operation that runs, `other` the one
\* that waits.  The materialization of one key (EWC_mat) is kept in one
\* step.  The credentials are set and the caller's directory is empty.
MaxCalls == 2

Running(c) == c.pc \notin {"idle", "done"}

ConcInit ==
    /\ Init
    /\ env
    /\ wk = AllNone /\ lm = AllNone /\ ex = AllNone

ConcBegin(c) ==
    /\ ~Running(call)
    /\ nCalls < MaxCalls
    /\ call' = c
    /\ nCalls' = nCalls + 1
    /\ UNCHANGED <<env, mgr, wk, ex, lm, git, remote, prev, nFaults, gitRuns, other>>

ConcWriteKeys == {K_CFG, K_POOLS}
ConcWriteData == {ObjB}

ConcStartEnsureInitialized ==
    ConcBegin(NewCall("ensureInitialized", "-", Undefined, <<>>, <<>>, <<>>))

ConcStartReadJson ==
    \E k \in ReadKeys :
        ConcBegin(NewCall("readJson", k, Undefined, <<k>>, <<"EWC_pull", "RJ_read">>, <<>>))

ConcStartWriteJson ==
    \E k \in ConcWriteKeys, d \in ConcWriteData :
        ConcBegin(NewCall("writeJson", k, d, <<>>, <<"WJ_work">>, <<>>))

\* the event loop passes to the other operation
Switch ==
    /\ Running(call) \/ Running(other)
    /\ call' = other
    /\ other' = call
    /\ UNCHANGED <<env, mgr, wk, ex, lm, git, remote, prev, nFaults, gitRuns, nCalls>>

ConcNext ==
    \/ ConcStartEnsureInitialized
    \/ ConcStartReadJson
    \/ ConcStartWriteJson
    \/ Switch
    \/ EI
    \/ EI_askpass
    \/ EI_readdir
    \/ EI_clone
    \/ EI_init
    \/ EI_remoteAdd
    \/ EI_fetch
    \/ EI_checkout
    \/ EI_checkoutB
    \/ EI_pull
    \/ EWC_pull
    \/ EWC_mat
    \/ RJ_read
    \/ WJ_work
    \/ WJ_local
    \/ WJ_git
    \/ STAGE
    \/ DIFF
    \/ HEAD
    \/ COMMIT
    \/ PWR

ConcSpec == ConcInit /\ [][ConcNext]_vars

(* ------------------------------- properties ---------------------------- *)
\* C1: when a required environment value is absent, the mode is LOCAL in
\* every reachable state and no git process is ever spawned, whatever the
\* sequence of public operations.
C1_LocalWithoutEnv == ~env => (mgr.mode = "LOCAL" /\ ~gitRuns)

\* C1 case: without the environment, a syncAllInStore has returned after an
\* earlier writeJson
C1_Witness ==
    /\ ~env
    /\ mgr.initialized
    /\ call.op = "syncAllInStore"
    /\ call.pc = "done"
    /\ prev.op = "writeJson"

\* C2: a writeJson or syncDirectory that reached the push in a non-LOCAL
\* mode and returned gives back ACTIVE, pending false, error null when its
\* push succeeded, and DEGRADED, pending true, error = the message of the
\* last failed attempt when every attempt failed.
C2_PushResultState ==
    (/\ call.op \in {"writeJson", "syncDirectory"}
     /\ call.pc = "done"
     /\ call.result = "returned"
     /\ call.pwr.tries # <<>>)
    => LET t == call.pwr.tries
       IN  /\ t[Len(t)] = "ok" =>
                /\ call.snap.mode = "ACTIVE"
                /\ call.snap.pending = FALSE
                /\ call.snap.error = NoError
           /\ (\A i \in 1..Len(t) : t[i] = "fail") =>
                /\ call.snap.mode = "DEGRADED"
                /\ call.snap.pending = TRUE
                /\ call.snap.error = call.pwr.lastErr
                /\ call.snap.error \in PushErrs

\* C2 case: a writeJson returned after a push that succeeded on a retry
C2_Witness ==
    /\ call.op = "writeJson"
    /\ call.pc = "done"
    /\ call.result = "returned"
    /\ call.pwr.tries = <<"fail", "ok">>

\* C3: a _pushWithRetry that has to push runs git push exactly 3 times when
\* every attempt fails and then reports failure; when attempt k <= 3
\* succeeds it has run git push exactly k times and reports success; the
\* call does not throw.
C3_RetryCount ==
    call.pwr.should =>
      LET t == call.pwr.tries
      IN  /\ Len(t) <= 3
          /\ \A i \in 1..(Len(t) - 1) : t[i] = "fail"
          /\ call.pwr.res = "false" =>
                Len(t) = 3 /\ \A i \in 1..3 : t[i] = "fail"
          /\ call.pwr.res = "true" => t # <<>> /\ t[Len(t)] = "ok"
          /\ call.pwr.res = "running" => \A i \in 1..Len(t) : t[i] = "fail"
          /\ call.op \in {"writeJson", "syncDirectory"} =>
                /\ call.nPush = Len(t)
                /\ call.pc = "done" => call.result = "returned"

\* C3 case: three failed pushes, failure reported, the write returned
C3_Witness ==
    /\ call.pwr.should
    /\ call.pwr.res = "false"
    /\ call.pwr.tries = <<"fail", "fail", "fail">>
    /\ call.pc = "done"
    /\ call.result = "returned"

\* C4: when a writeJson of content C to key K in a non-LOCAL mode has its
\* push fail on all retries, at its return the mode is DEGRADED, pending is
\* true, and the working copy and the local mirror of K both hold C.
C4_DegradedKeepsLocal ==
    (/\ call.op = "writeJson"
     /\ call.pc = "done"
     /\ call.pwr.res = "false")
    => /\ call.result = "returned"
       /\ mgr.mode = "DEGRADED"
       /\ mgr.pending
       /\ wk[call.key] = File(Serialize(call.data))
       /\ lm[call.key] = File(Serialize(call.data))

\* C4 case: the push of a writeJson of {"a": 1} failed three times
C4_Witness ==
    /\ call.op = "writeJson"
    /\ call.pc = "done"
    /\ call.data = ObjA
    /\ call.pwr.res = "false"
    /\ call.pwr.tries = <<"fail", "fail", "fail">>

\* C5 as stated: after writeJson(K, C) returned with mode ACTIVE, a
\* readJson(K) with no write to K in between returns a value equal to C.
C5_ReadEqualsWritten ==
    (/\ call.op = "readJson"
     /\ call.pc = "done"
     /\ call.result = "returned"
     /\ prev.op = "writeJson"
     /\ prev.mode = "ACTIVE"
     /\ prev.key = call.key)
    => call.value = prev.data

\* C5: after writeJson(K, C) returned with mode ACTIVE, a readJson(K) with
\* no write to K in between returns JSON.parse of the text the write
\* stored (C itself when C is a string, its serialisation otherwise), which
\* equals C when C is not a string; the pull of the read may fail or not.
C5_ReadParsesWritten ==
    (/\ call.op = "readJson"
     /\ call.pc = "done"
     /\ call.result = "returned"
     /\ prev.op = "writeJson"
     /\ prev.mode = "ACTIVE"
     /\ prev.key = call.key)
    => /\ <<"ok", call.value>> = Parse(Serialize(prev.data))
       /\ prev.data[1] # "str" => call.value = prev.data

\* C5 case: a readJson whose pull failed returned after an ACTIVE write of
\* a structured value
C5_Witness ==
    /\ call.op = "readJson"
    /\ call.pc = "done"
    /\ call.result = "returned"
    /\ prev.op = "writeJson"
    /\ prev.mode = "ACTIVE"
    /\ prev.data = ObjA
    /\ "pull:fail" \in call.log

\* C6 as stated: the read returns the content of the first existing source
\* in the order clone (unless LOCAL), local mirror, example file, and with
\* no source the read fails.
C6_NoSourceFails ==
    (/\ call.op = "readJson"
     /\ call.pc = "done"
     /\ call.seen.set)
    => LET sn == call.seen
           src == IF sn.mode # "LOCAL" /\ sn.g # None THEN sn.g
                  ELSE IF sn.l # None THEN sn.l
                  ELSE sn.e
       IN  IF src = None THEN call.result = "threw"
           ELSE call.result = "returned" => <<"ok", call.value>> = Parse(src[2])

\* C6: a read that returns gives the content of the first existing source in
\* the order clone (unless LOCAL), local mirror, example file; with no
\* source it gives the content of the working copy as it is, and fails
\* when there is no working copy either.
C6_SourceOrder ==
    (/\ call.op = "readJson"
     /\ call.pc = "done"
     /\ call.seen.set)
    => LET sn == call.seen
           src == IF sn.mode # "LOCAL" /\ sn.g # None THEN sn.g
                  ELSE IF sn.l # None THEN sn.l
                  ELSE sn.e
       IN  /\ (call.result = "returned" /\ src # None) =>
                 <<"ok", call.value>> = Parse(src[2])
           /\ (call.result = "returned" /\ src = None) =>
                 sn.w # None /\ <<"ok", call.value>> = Parse(sn.w[2])
           /\ (src = None /\ sn.w = None) => call.result = "threw"

\* C6 case: the clone and the local mirror held different contents and the
\* read returned
C6_Witness ==
    /\ call.op = "readJson"
    /\ call.pc = "done"
    /\ call.result = "returned"
    /\ call.seen.set
    /\ call.seen.mode # "LOCAL"
    /\ call.seen.g # None
    /\ call.seen.l # None
    /\ call.seen.l # call.seen.g

C8_NoThrowOnGitFailure ==
    ~(/\ call.pc = "done"
      /\ call.result = "threw"
      /\ "threw:git" \in call.log)

\* C9 as stated: a filesystem failure while writing the working copy of a
\* key is thrown to the caller by every public write operation.
C9_FsFailureSurfaced ==
    (/\ call.pc = "done"
     /\ "writeWorking:fail" \in call.log)
    => call.result = "threw"

\* C10: with the environment present, the first initialization ends ACTIVE
\* with pending false and error null when the credential helper, clone or
\* init and one of the two checkouts succeeded, whatever remote add, fetch
\* and pull did; it ends LOCAL with the failure message as error when clone
\* or init failed or both checkouts failed.
C10_InitOutcome ==
    (env /\ call.init.done) =>
      LET in == call.init
          lg == call.log
      IN  /\ ("checkout:ok" \in lg \/ "checkoutB:ok" \in lg) =>
                (in.mode = "ACTIVE" /\ ~in.pending /\ in.error = NoError)
          /\ "clone:fail" \in lg =>
                (in.mode = "LOCAL" /\ in.error = GitErr("clone"))
          /\ "init:fail" \in lg =>
                (in.mode = "LOCAL" /\ in.error = GitErr("init"))
          /\ ("checkout:fail" \in lg /\ "checkoutB:fail" \in lg) =>
                (in.mode = "LOCAL" /\ in.error = GitErr("checkout -b"))

\* C10 case: remote add, fetch and pull all failed and the initialization
\* ended ACTIVE
C10_Witness ==
    /\ env
    /\ call.init.done
    /\ call.init.mode = "ACTIVE"
    /\ "remoteAdd:fail" \in call.log
    /\ "fetch:fail" \in call.log
    /\ "initPull:fail" \in call.log

\* C11: a write that reaches its push step while pending is true runs git
\* push whether or not it staged a change, in particular the write that
\* follows a write whose push exhausted its retries; and pending, once
\* true, becomes false only in a step in which a git push succeeded.
C11_PendingUntilPushed ==
    /\ [](/\ call.pwr.pend => call.pwr.should
          /\ (call.pwr.pend /\ call.pwr.res \in {"true", "false"}) =>
                call.pwr.tries # <<>>
          /\ (/\ call.op = "writeJson"
              /\ call.pc = "done"
              /\ call.result = "returned"
              /\ prev.op = "writeJson"
              /\ prev.adj
              /\ prev.mode = "DEGRADED") => (call.pwr.pend /\ call.nPush > 0))
    /\ [][(mgr.pending /\ ~mgr'.pending) =>
            call'.pwr.tries = Append(call.pwr.tries, "ok")]_vars

\* C11 case: after a write whose push failed three times and a read, a
\* write that staged no change has pushed and cleared pending
C11_Witness ==
    /\ call.op = "writeJson"
    /\ call.pc = "done"
    /\ call.result = "returned"
    /\ prev.op = "writeJson"
    /\ prev.mode = "DEGRADED"
    /\ ~prev.adj
    /\ "diff:same" \in call.log
    /\ call.pwr.pend
    /\ call.pwr.tries = <<"ok">>
    /\ ~mgr.pending

\* C12 as stated: with the credentials set, if from some point on no git
\* invocation fails and writes keep being issued, then from every state
\* reached through a failed clone or a failed push the mode eventually is
\* ACTIVE with pending false.
C12_Recovers ==
    (<>[](/\ \A t \in call.log :
               t \notin {"clone:fail", "init:fail", "remoteAdd:fail", "fetch:fail",
                         "checkout:fail", "checkoutB:fail", "initPull:fail",
                         "add:fail", "diff:error", "revparse:fail", "commit:fail"}
          /\ \A i \in 1..Len(call.pwr.tries) : call.pwr.tries[i] = "ok"))
    => []((mgr.initialized /\ mgr.error \in {GitErr("clone")} \cup PushErrs)
            => <>(mgr.mode = "ACTIVE" /\ ~mgr.pending))

\* C13 as stated: in every reachable state, for every interleaving of
\* public operations, pending = true implies that the mode is not LOCAL.
C13_PendingNotLocal == mgr.pending => mgr.mode # "LOCAL"

\* C14 as stated: the preparation of the repository (credential helper,
\* then clone/init/fetch/checkout/pull) runs at most once per process, also
\* when operations are started before the first initialization completed.
C14_PreparedOnce ==
    ~(/\ \E o \in {"ok", "fail"} : ("askpass:" \o o) \in call.log
      /\ \E o \in {"ok", "fail"} : ("askpass:" \o o) \in other.log)

\* C15 as stated: once two overlapping writes to different keys have both
\* returned, mode = ACTIVE and pending = false imply that the remote branch
\* holds the commit of the clone.
C15_ActiveMeansPushed ==
    (/\ call.op = "writeJson" /\ call.pc = "done" /\ call.result = "returned"
     /\ other.op = "writeJson" /\ other.pc = "done" /\ other.result = "returned"
     /\ call.key # other.key
     /\ mgr.mode = "ACTIVE"
     /\ ~mgr.pending)
    => (git.hasHead /\ remote.exists /\ remote.tree = git.head)

\* C16 as stated: the commit step creates a new commit only when the clone
\* has no HEAD and amends the existing commit otherwise, so that a commit is
\* never stacked on an existing one.
C16_SingleSnapshot ==
    [][(/\ call.pc = "COMMIT"
        /\ call'.nCommit = call.nCommit + 1
        /\ git.hasHead)
       => call.amend]_vars

C18_PullFailure ==
    [][(call.pc = "EWC_pull" /\ mgr.mode # "LOCAL" /\ call'.op = call.op)
       => /\ call'.pc = "EWC_mat"
          /\ call'.result = "none"
          /\ wk' = wk /\ lm' = lm
          /\ \/ /\ call'.pull = "fail"
                /\ mgr'.mode = "DEGRADED"
                /\ mgr'.pending
                /\ mgr'.error = GitErr("pull")
                /\ git' = git
             \/ /\ call'.pull = "ok"
                /\ mgr' = mgr]_vars

\* a readJson has returned whose pull succeeded while the state was
\* DEGRADED / pending with the error of the failed pull of an earlier
\* call, and the state is still that
C18_Witness ==
    /\ call.op = "readJson" /\ call.pc = "done" /\ call.result = "returned"
    /\ call.pull = "ok"
    /\ mgr.mode = "DEGRADED"
    /\ mgr.pending
    /\ mgr.error = GitErr("pull")

\* C19 as stated: a syncDirectory call leaves the files of the working
\* directory as they were when it started -- its materialization step never
\* replaces them with the copy of another tier -- and when it returns the
\* local mirror, and the clone unless the mode is LOCAL, hold the content of
\* the working directory.
C19_WorkingDirPublished ==
    /\ []((call.op = "syncDirectory" /\ call.pc = "done" /\ call.result = "returned"
           /\ Exists(wk[K_DIR]))
          => /\ lm[K_DIR] = wk[K_DIR]
             /\ mgr.mode # "LOCAL" => git.wt[K_DIR] = wk[K_DIR])
    /\ [][(call.op = "syncDirectory" /\ call'.op = "syncDirectory"
           /\ call.pc # "done" /\ Exists(wk[K_DIR]))
          => wk'[K_DIR] = wk[K_DIR]]_vars

\* C20 as stated: once initialization has completed, a step that makes the
\* state ACTIVE with no error, from a state that was not, is the step in
\* which a git push of the running operation succeeded.
C20_ActiveOnlyByPush ==
    [][(/\ mgr.initialized
        /\ mgr.mode # "ACTIVE" \/ mgr.error # NoError
        /\ mgr'.mode = "ACTIVE"
        /\ mgr'.error = NoError)
       => /\ call'.nPush = call.nPush + 1
          /\ call'.pwr.tries = Append(call.pwr.tries, "ok")]_vars

====
